---- MODULE Spec2Model ----
(***************************************************************************)
(* Model of src/app/page.tsx: the still-image enhancer (enhanceOne,        *)
(* applySharpen), the caption word-wrap (wrapText), the batch driver       *)
(* (processFiles, detectClothing, buildScript) and the video job           *)
(* (onGenerateVideo, createVideoFromImage, animate, transcodeToMp4).       *)
(*                                                                         *)
(* Numbers that are fractions in the source are kept as exact integers     *)
(* scaled by Den (one hundredth), so 0.25 is 25 and 0.55 is 55.            *)
(***************************************************************************)
EXTENDS Integers, Sequences, FiniteSets, TLC

VARIABLES
    \* ---- video job (onGenerateVideo / createVideoFromImage) ----
    videoBusy,      \* useState videoBusy
    vpc,            \* position of createVideoFromImage
    jobScript,      \* item.script handed to the job
    jobBrand,       \* brandName.trim() handed to the job
    jobLines,       \* lines = wrapText(script, 28, 680)
    brandingText,   \* "#" + brand without whitespace, or empty
    frame,          \* let frame
    drawCount,      \* number of drawVideoFrame calls made so far
    lastProgress,   \* <<frame, totalFrames>> of the last drawVideoFrame call
    loop,           \* animate loop: none, scheduled, crashed, finished
    recorderState,  \* MediaRecorder.state: none, recording, inactive
    stopIssued,     \* recorder.stop() has been called
    flushed,        \* the final dataavailable event has been delivered
    onstopFired,    \* recorder.onstop ran and resolved the recording promise
    chunks,         \* number of entries pushed to chunks[]
    streamLive,     \* canvas.captureStream() tracks are live
    tstep,          \* position inside transcodeToMp4
    ffmpegFS,       \* files present in the ffmpeg virtual file system
    videoResult,    \* value createVideoFromImage settled with
    itemHasVideo,   \* setEnhanced attached videoUrl/videoBlob to the item
    \* ---- still-image enhancer (enhanceOne / applySharpen) ----
    epc,            \* position inside enhanceOne
    opts,           \* ProcessingOptions given to enhanceOne
    bitmap,         \* <<width, height>> of the decoded ImageBitmap
    canvas,         \* <<width, height>> of the output canvas
    ctxFilter,      \* <<brightness, saturation>> written to ctx.filter
    imageData,      \* getImageData result: [width, height, data]
    kernelUsed,     \* intensity handed to applySharpen, or -1
    written,        \* buffer handed to putImageData
    \* ---- word wrap (wrapText) ----
    wpc,
    wText,
    wFontSize,
    wMaxWidth,
    wLines,
    \* ---- batch driver (processFiles) and model loading ----
    processing,     \* useState processing
    enhanced,       \* useState enhanced
    brandName,      \* useState brandName
    vibe,           \* useState vibe
    modelReady,     \* useState modelReady
    modelError,     \* useState modelError is set
    cocoModelRef,   \* cocoModelRef.current is set
    mobilenetRef,   \* mobilenetRef.current is set
    lpc,            \* position inside loadModels
    cancelled,      \* let cancelled of the model-loading effect
    batches         \* per processFiles call: its closure and local state

videoVars == <<videoBusy, vpc, jobScript, jobBrand, jobLines, brandingText, frame, drawCount,
               lastProgress, loop, recorderState, stopIssued, flushed,
               onstopFired, chunks, streamLive, tstep, ffmpegFS, videoResult,
               itemHasVideo>>
enhVars   == <<epc, opts, bitmap, canvas, ctxFilter, imageData, kernelUsed,
               written>>
wrapVars  == <<wpc, wText, wFontSize, wMaxWidth, wLines>>
loadVars  == <<modelReady, modelError, cocoModelRef, mobilenetRef, lpc,
               cancelled>>
batchVars == <<processing, enhanced, brandName, vibe, batches, loadVars>>
vars      == <<videoVars, enhVars, wrapVars, batchVars>>

\* Fractions are integers over Den.
Den == 100

----------------------------------------------------------------------------
(* Helpers on sequences *)

RECURSIVE SumSeq(_)
SumSeq(s) == IF s = <<>> THEN 0 ELSE Head(s) + SumSeq(Tail(s))

RECURSIVE Flatten(_)
Flatten(ss) == IF ss = <<>> THEN <<>> ELSE Head(ss) \o Flatten(Tail(ss))

Max2(a, b) == IF a > b THEN a ELSE b
Min2(a, b) == IF a < b THEN a ELSE b

SeqsUpTo(S, n) == UNION { [1..k -> S] : k \in 0..n }

----------------------------------------------------------------------------
(* wrapText: strings are sequences of characters *)

\* Bound: longest text handed to wrapText in the word-wrap specification.
MaxTextLen == 8
Chars == {"a", " "}
FontSizes == {28, 40}
MaxWidths == {15, 50, 70}

\* String.prototype.split(" "): consecutive, leading and trailing spaces
\* give empty words; the empty text gives one empty word.
RECURSIVE SplitAcc(_, _, _)
SplitAcc(s, cur, acc) ==
    IF s = <<>> THEN Append(acc, cur)
    ELSE IF Head(s) = " " THEN SplitAcc(Tail(s), <<>>, Append(acc, cur))
    ELSE SplitAcc(Tail(s), Append(cur, Head(s)), acc)

split(text) == SplitAcc(text, <<>>, <<>>)

\* Variant of TooWide: the line is measured without its last character.
TooWideShort(len, fontSize, maxWidth) ==
    (len - 1) * (fontSize * 55) > maxWidth * Den

\* tentative.length * (fontSize * 0.55) > maxWidth
TooWide(len, fontSize, maxWidth) == len * (fontSize * 55) > maxWidth * Den

\* `${currentLine} ${word}` when currentLine is non-empty, else word
Tentative(currentLine, word) ==
    IF currentLine # <<>> THEN currentLine \o <<" ">> \o word ELSE word

RECURSIVE WrapLoop(_, _, _, _, _)
WrapLoop(words, currentLine, lines, fontSize, maxWidth) ==
    IF words = <<>>
    THEN IF currentLine # <<>> THEN Append(lines, currentLine) ELSE lines
    ELSE LET word == Head(words)
             tentative == Tentative(currentLine, word)
         IN IF TooWide(Len(tentative), fontSize, maxWidth)
            THEN WrapLoop(Tail(words), word,
                          IF currentLine # <<>> THEN Append(lines, currentLine)
                          ELSE lines,
                          fontSize, maxWidth)
            ELSE WrapLoop(Tail(words), tentative, lines, fontSize, maxWidth)

wrapText(text, fontSize, maxWidth) ==
    WrapLoop(split(text), <<>>, <<>>, fontSize, maxWidth)

WrapInit ==
    /\ wpc = "ready"
    /\ wText \in SeqsUpTo(Chars, MaxTextLen)
    /\ wFontSize \in FontSizes
    /\ wMaxWidth \in MaxWidths
    /\ wLines = <<>>

WrapIdle ==
    /\ wpc = "off" /\ wText = <<>> /\ wFontSize = 28 /\ wMaxWidth = 680
    /\ wLines = <<>>

WrapCall ==
    /\ wpc = "ready"
    /\ wLines' = wrapText(wText, wFontSize, wMaxWidth)
    /\ wpc' = "returned"
    /\ UNCHANGED <<wText, wFontSize, wMaxWidth>>
    /\ UNCHANGED <<videoVars, enhVars, batchVars>>

----------------------------------------------------------------------------
(* applySharpen: imageData.data is the interleaved RGBA buffer, indexed    *)
(* from 0 as in the source; intensity is an integer over Den.              *)

\* function clamp(value), on a value over Den
clamp(v) == Max2(0, Min2(255 * Den, v))

\* Storing into a Uint8ClampedArray: nearest integer, ties to even.
ToUint8Clamp(v) ==
    LET c == clamp(v)
        q == c \div Den
        r == c % Den
    IN IF 2 * r < Den THEN q
       ELSE IF 2 * r > Den THEN q + 1
       ELSE IF q % 2 = 0 THEN q ELSE q + 1

\* Variant of weights: a centre weight of 4 * intensity, without the 1.
weightsNoIdentity(intensity) ==
    << 0, -1 * intensity, 0,
       -1 * intensity, 4 * intensity, -1 * intensity,
       0, -1 * intensity, 0 >>

\* const weights = [...]
weights(intensity) ==
    << 0, -1 * intensity, 0,
       -1 * intensity, Den + 4 * intensity, -1 * intensity,
       0, -1 * intensity, 0 >>

\* const getIndex = (x, y) => (y * width + x) * 4
getIndex(x, y, width) == (y * width + x) * 4

\* The two inner loops over ky, kx for one channel: weightIndex runs 0..8
\* (1..9 here), kx = weightIndex % 3 - 1, ky = weightIndex \div 3 - 1.
KernelSum(copy, x, y, width, ch, intensity) ==
    SumSeq([wi \in 1..9 |->
              LET kx == ((wi - 1) % 3) - 1
                  ky == ((wi - 1) \div 3) - 1
              IN copy[getIndex(x + kx, y + ky, width) + ch]
                   * weights(intensity)[wi]])

\* The value the destination sample is read from when the delta is added:
\* data[dest], the buffer being written.
BaseSample(data, copy, i) == data[i]

\* Variant of SharpenPixel: the neighbours are read from the buffer being
\* written instead of the snapshot.
SharpenPixelInPlace(data, copy, x, y, width, intensity) ==
    LET dest == getIndex(x, y, width)
    IN [data EXCEPT
          ![dest] = ToUint8Clamp(data[dest] * Den
                       + KernelSum(data, x, y, width, 0, intensity)),
          ![dest + 1] = ToUint8Clamp(data[dest + 1] * Den
                       + KernelSum(data, x, y, width, 1, intensity)),
          ![dest + 2] = ToUint8Clamp(data[dest + 2] * Den
                       + KernelSum(data, x, y, width, 2, intensity))]

\* Body of the x loop for one pixel: three channel stores.
SharpenPixel(data, copy, x, y, width, intensity) ==
    LET dest == getIndex(x, y, width)
    IN [data EXCEPT
          ![dest] = ToUint8Clamp(BaseSample(data, copy, dest) * Den
                       + KernelSum(copy, x, y, width, 0, intensity)),
          ![dest + 1] = ToUint8Clamp(BaseSample(data, copy, dest + 1) * Den
                       + KernelSum(copy, x, y, width, 1, intensity)),
          ![dest + 2] = ToUint8Clamp(BaseSample(data, copy, dest + 2) * Den
                       + KernelSum(copy, x, y, width, 2, intensity))]

\* First and one-past-last coordinate of the y and x loops.
LoopFirst == 1
LoopEnd(size) == size - 1

\* for (y = 1; y < height - 1; y++) for (x = 1; x < width - 1; x++)
RECURSIVE SharpenLoop(_, _, _, _, _, _, _)
SharpenLoop(data, copy, x, y, width, height, intensity) ==
    IF y >= LoopEnd(height) THEN data
    ELSE IF x >= LoopEnd(width)
         THEN SharpenLoop(data, copy, LoopFirst, y + 1, width, height, intensity)
         ELSE SharpenLoop(SharpenPixel(data, copy, x, y, width, intensity),
                          copy, x + 1, y, width, height, intensity)

applySharpen(img, intensity) ==
    [width |-> img.width, height |-> img.height,
     data |-> SharpenLoop(img.data, img.data, LoopFirst, LoopFirst,
                          img.width, img.height, intensity)]

----------------------------------------------------------------------------
(* Inputs of the sharpen specification: every small image over PixelVals *)

\* Bound: largest width of an image handed to applySharpen; heights go up
\* to three rows, the least that has an interior row.
MaxSide == 3
Heights == 1..3
\* RGBA samples a pixel may hold
PixelVals == { <<10, 255, 0, 255>>, <<20, 100, 200, 128>> }
\* intensities over Den: 0.25 and 0.5
SharpenLevels == {25, 50}

\* Buffer of a width x height image whose pixel k (row-major) is px[k].
BufferOf(px, width, height) ==
    [i \in 0..(width * height * 4 - 1) |-> px[(i \div 4) + 1][(i % 4) + 1]]

Images(maxSide) ==
    UNION { { [width |-> w, height |-> h, data |-> BufferOf(px, w, h)] :
                px \in [1..(w * h) -> PixelVals] } :
            <<w, h>> \in (1..maxSide) \X Heights }

NoImage == [width |-> 0, height |-> 0, data |-> <<>>]

SharpenInit ==
    /\ epc = "sharpenReady"
    /\ imageData \in Images(MaxSide)
    /\ kernelUsed \in SharpenLevels
    /\ written = NoImage
    /\ opts = [scale |-> 1, brightness |-> Den, saturation |-> Den,
               sharpen |-> kernelUsed]
    /\ bitmap = <<0, 0>> /\ canvas = <<0, 0>> /\ ctxFilter = <<Den, Den>>

SharpenCall ==
    /\ epc = "sharpenReady"
    /\ written' = applySharpen(imageData, kernelUsed)
    /\ epc' = "sharpened"
    /\ UNCHANGED <<opts, bitmap, canvas, ctxFilter, imageData, kernelUsed>>
    /\ UNCHANGED <<videoVars, wrapVars, batchVars>>

----------------------------------------------------------------------------
(* enhanceOne *)

\* Bound: largest width and height of a decoded source bitmap.
MaxBitmap == 2
Scales == {0, 1, 2, 3}
Brightnesses == {Den, 108, 300}
Saturations == {10, Den}
Sharpens == {0, 25, 50, 200}

OptsSet == [scale : Scales, brightness : Brightnesses,
            saturation : Saturations, sharpen : Sharpens]

\* What drawImage followed by getImageData may hand back for a canvas of
\* the given size: the platform's resampler is not part of the program, so
\* the buffer is an input, drawn from a family of three test patterns.
Patterns == {"flat", "checker", "ramp"}
PatternSample(p, x, y, ch) ==
    IF ch = 3 THEN 255
    ELSE IF p = "flat" THEN 100
    ELSE IF p = "checker" THEN (IF (x + y) % 2 = 0 THEN 200 ELSE 50)
    ELSE (x * 40 + y * 90 + ch * 17) % 256

Resampled(p, width, height) ==
    [width |-> width, height |-> height,
     data |-> [i \in 0..(width * height * 4 - 1) |->
                 PatternSample(p, (i \div 4) % width, (i \div 4) \div width,
                               i % 4)]]

EnhInit ==
    /\ epc = "decode"
    /\ opts \in OptsSet
    /\ bitmap \in (1..MaxBitmap) \X (1..MaxBitmap)
    /\ canvas = <<0, 0>> /\ ctxFilter = <<Den, Den>>
    /\ imageData = NoImage /\ kernelUsed = -1 /\ written = NoImage

EnhIdle ==
    /\ epc = "off"
    /\ opts = [scale |-> 2, brightness |-> 108, saturation |-> 112,
               sharpen |-> 25]
    /\ bitmap = <<0, 0>> /\ canvas = <<0, 0>> /\ ctxFilter = <<Den, Den>>
    /\ imageData = NoImage /\ kernelUsed = -1 /\ written = NoImage

\* await createImageBitmap(file): resolves, or rejects for an unreadable file
EnhanceDecode ==
    /\ epc = "decode"
    /\ \E ok \in BOOLEAN : epc' = IF ok THEN "render" ELSE "failed"
    /\ UNCHANGED <<opts, bitmap, canvas, ctxFilter, imageData, kernelUsed,
                   written>>
    /\ UNCHANGED <<videoVars, wrapVars, batchVars>>

\* canvas.width = imageBitmap.width * opts.scale (and height)
CanvasSize(bm, o) == <<bm[1] * o.scale, bm[2] * o.scale>>

\* ctx.filter = `brightness(${opts.brightness}) saturate(${opts.saturation})`
FilterOf(o) == <<o.brightness, o.saturation>>

\* Variant of SharpenEnabled: the pass also runs for an intensity of 0.
SharpenAlways(o) == o.sharpen >= 0

\* if (opts.sharpen > 0)
SharpenEnabled(o) == o.sharpen > 0

\* The synchronous block between the two awaits: create and size the canvas,
\* get the context (may be null), set the filter, draw, read the pixels
\* (getImageData throws on an empty canvas), sharpen or not, write back.
EnhanceRender ==
    /\ epc = "render"
    /\ canvas' = CanvasSize(bitmap, opts)
    /\ \E ctxOk \in BOOLEAN, p \in Patterns :
         IF ~ctxOk
         THEN /\ epc' = "failed"
              /\ UNCHANGED <<ctxFilter, imageData, kernelUsed, written>>
         ELSE /\ ctxFilter' = FilterOf(opts)
              /\ IF canvas'[1] = 0 \/ canvas'[2] = 0
                 THEN /\ epc' = "failed"
                      /\ UNCHANGED <<imageData, kernelUsed, written>>
                 ELSE /\ imageData' = Resampled(p, canvas'[1], canvas'[2])
                      /\ IF SharpenEnabled(opts)
                         THEN /\ kernelUsed' = opts.sharpen
                              /\ written' = applySharpen(imageData', opts.sharpen)
                         ELSE /\ kernelUsed' = -1
                              /\ written' = imageData'
                      /\ epc' = "encode"
    /\ UNCHANGED <<opts, bitmap>>
    /\ UNCHANGED <<videoVars, wrapVars, batchVars>>

\* await canvasToBlob(canvas, "image/png", 0.98): rejects on a null blob
EnhanceEncode ==
    /\ epc = "encode"
    /\ \E ok \in BOOLEAN : epc' = IF ok THEN "done" ELSE "failed"
    /\ UNCHANGED <<opts, bitmap, canvas, ctxFilter, imageData, kernelUsed,
                   written>>
    /\ UNCHANGED <<videoVars, wrapVars, batchVars>>

----------------------------------------------------------------------------
(* detectClothing and buildScript *)

\* const cocoClothingLabels
cocoClothingLabels ==
    {"person", "backpack", "umbrella", "handbag", "tie", "suitcase"}

\* normalizeLabel on the labels used here: first letter of each word upper
normalizeLabel(label) ==
    CASE label = "handbag" -> "Handbag"
      [] label = "person" -> "Person"
      [] label = "sneaker" -> "Sneaker"
      [] OTHER -> label

\* item.toLowerCase()
toLowerCase(label) ==
    CASE label = "Handbag" -> "handbag"
      [] label = "Person" -> "person"
      [] label = "Sneaker" -> "sneaker"
      [] OTHER -> label

\* detected.add(x) on the insertion-ordered Set
SetAdd(detected, x) ==
    IF \E i \in 1..Len(detected) : detected[i] = x THEN detected
    ELSE Append(detected, x)

RECURSIVE AddCoco(_, _)
AddCoco(detected, predictions) ==
    IF predictions = <<>> THEN detected
    ELSE AddCoco(IF Head(predictions) \in cocoClothingLabels
                 THEN SetAdd(detected, normalizeLabel(Head(predictions)))
                 ELSE detected,
                 Tail(predictions))

\* A mobilenet prediction is given by the clothing keywords its class name
\* contains.
RECURSIVE AddKeywords(_, _)
AddKeywords(detected, keywords) ==
    IF keywords = <<>> THEN detected
    ELSE AddKeywords(SetAdd(detected, normalizeLabel(Head(keywords))),
                     Tail(keywords))

\* detectClothing once image.decode() and both model calls have resolved
detectClothing(cocoModel, mobilenetModel, cocoPredictions, keywordHits) ==
    LET d1 == IF cocoModel THEN AddCoco(<<>>, cocoPredictions) ELSE <<>>
    IN IF mobilenetModel THEN AddKeywords(d1, keywordHits) ELSE d1

\* buildScript: the five parts of the returned template string
buildScript(items, brand, style) ==
    [intro |-> style,
     mentionBrand |-> IF brand # "" THEN <<brand, " ">> ELSE <<>>,
     core |-> IF Len(items) > 0
              THEN <<"On adore">> \o [i \in 1..Len(items) |-> toLowerCase(items[i])]
              ELSE <<"La silhouette reste fluide">>,
     vibeLine |-> style,
     outro |-> "Dites-moi"]

----------------------------------------------------------------------------
(* Model loading effect: loadModels and its cleanup *)

LoadInit ==
    /\ modelReady = FALSE /\ modelError = FALSE
    /\ cocoModelRef = FALSE /\ mobilenetRef = FALSE
    /\ lpc = "importTf" /\ cancelled = FALSE

\* catch (error) { if (!cancelled) { ...; setModelError(...) } }
LoadCatch ==
    /\ lpc' = "failed"
    /\ modelError' = IF ~cancelled THEN TRUE ELSE modelError
    /\ UNCHANGED <<modelReady, cocoModelRef, mobilenetRef, cancelled>>

\* One awaited promise of loadModels settles and the function runs to its
\* next await (or to its end).
LoadStep ==
    /\ lpc \in {"importTf", "tfReady", "imports", "loadCoco", "loadMobilenet"}
    /\ \E ok \in BOOLEAN :
         IF ~ok THEN LoadCatch
         ELSE CASE lpc = "importTf" ->
                     /\ lpc' = "tfReady"
                     /\ UNCHANGED <<modelReady, modelError, cocoModelRef,
                                    mobilenetRef, cancelled>>
                [] lpc = "tfReady" ->
                     /\ lpc' = "imports"
                     /\ UNCHANGED <<modelReady, modelError, cocoModelRef,
                                    mobilenetRef, cancelled>>
                [] lpc = "imports" ->
                     /\ lpc' = IF ~cancelled THEN "loadCoco" ELSE "done"
                     /\ UNCHANGED <<modelReady, modelError, cocoModelRef,
                                    mobilenetRef, cancelled>>
                [] lpc = "loadCoco" ->
                     /\ cocoModelRef' = TRUE
                     /\ lpc' = "loadMobilenet"
                     /\ UNCHANGED <<modelReady, modelError, mobilenetRef,
                                    cancelled>>
                [] lpc = "loadMobilenet" ->
                     /\ mobilenetRef' = TRUE
                     /\ modelReady' = TRUE
                     /\ lpc' = "done"
                     /\ UNCHANGED <<modelError, cocoModelRef, cancelled>>
    /\ UNCHANGED <<processing, enhanced, brandName, vibe, batches>>
    /\ UNCHANGED <<videoVars, enhVars, wrapVars>>

\* return () => { cancelled = true; }
Unmount ==
    /\ ~cancelled
    /\ cancelled' = TRUE
    /\ UNCHANGED <<modelReady, modelError, cocoModelRef, mobilenetRef, lpc>>
    /\ UNCHANGED <<processing, enhanced, brandName, vibe, batches>>
    /\ UNCHANGED <<videoVars, enhVars, wrapVars>>

----------------------------------------------------------------------------
(* processFiles *)

\* Bounds: number of processFiles calls, and files per call.
MaxBatches == 2
MaxFiles == 2
\* A dropped batch is the first n files of this list.
FileName(i) == <<"file", i>>
FileLists == { [i \in 1..n |-> FileName(i)] : n \in 1..MaxFiles }
\* Brand typed and vibe selected before the files are dropped
BrandVibes == { <<"", "casual">>, <<"Atelier", "street">> }
\* What the two models report: classes from coco-ssd, and the clothing
\* keywords contained in the mobilenet class names
CocoPredictions == { <<>>, <<"dog", "handbag">> }
KeywordHits == { <<>>, <<"handbag">> }

\* Size of the bitmap each file decodes to
FileDims(name) == <<name[2], 2>>

\* defaultOptions.scale
defaultScale == 2

IdleBatch ==
    [bpc |-> "idle", files |-> <<>>, idx |-> 0, results |-> <<>>,
     mReady |-> FALSE, brand |-> "", vibe |-> "casual", cur |-> <<0, 0>>,
     caught |-> "none"]

BatchInit ==
    /\ processing = FALSE
    /\ enhanced = <<>>
    /\ \E bv \in BrandVibes : brandName = bv[1] /\ vibe = bv[2]
    /\ batches = [b \in 1..MaxBatches |-> IdleBatch]
    /\ LoadInit

BatchIdle ==
    /\ processing = FALSE /\ enhanced = <<>>
    /\ brandName = "" /\ vibe = "casual"
    /\ batches = [b \in 1..MaxBatches |-> IdleBatch]
    /\ modelReady = FALSE /\ modelError = FALSE
    /\ cocoModelRef = FALSE /\ mobilenetRef = FALSE
    /\ lpc = "off" /\ cancelled = FALSE

\* handleDrop / handleFileInput with at least one image file: processFiles
\* runs to its first await. The callback closes over options, brandName,
\* vibe and modelReady of the render it was created in.
StartBatch(b) ==
    /\ batches[b].bpc = "idle"
    /\ \E files \in FileLists :
         batches' = [batches EXCEPT ![b] =
                       [bpc |-> "enhance", files |-> files, idx |-> 1,
                        results |-> <<>>, mReady |-> modelReady,
                        brand |-> brandName, vibe |-> vibe, cur |-> <<0, 0>>,
                        caught |-> "none"]]
    /\ processing' = TRUE
    /\ UNCHANGED <<enhanced, brandName, vibe, loadVars>>
    /\ UNCHANGED <<videoVars, enhVars, wrapVars>>

\* catch (error) { console.error(error) } finally { setProcessing(false) }
BatchCatch(b, kind) ==
    /\ batches' = [batches EXCEPT ![b].bpc = "done", ![b].caught = kind]
    /\ processing' = FALSE
    /\ UNCHANGED enhanced

\* results.push({...}) and the loop's next turn: the next file's enhanceOne
\* is awaited, or after the last file setEnhanced prepends the results and
\* finally clears the flag.
PushResult(b, dims, clothing) ==
    LET bt == batches[b]
        r == [name |-> bt.files[bt.idx], width |-> dims[1],
              height |-> dims[2], scale |-> defaultScale,
              clothing |-> clothing,
              script |-> buildScript(clothing, bt.brand, bt.vibe)]
        results == Append(bt.results, r)
    IN IF bt.idx < Len(bt.files)
       THEN /\ batches' = [batches EXCEPT ![b].results = results,
                                          ![b].idx = bt.idx + 1,
                                          ![b].bpc = "enhance"]
            /\ UNCHANGED <<processing, enhanced>>
       ELSE /\ batches' = [batches EXCEPT ![b].results = results,
                                          ![b].bpc = "done"]
            /\ enhanced' = results \o enhanced
            /\ processing' = FALSE

\* await enhanceOne(file, options) settles
EnhanceSettled(b) ==
    /\ batches[b].bpc = "enhance"
    /\ \E ok \in BOOLEAN :
         IF ~ok THEN BatchCatch(b, "enhance")
         ELSE LET bt == batches[b]
                  dims == CanvasSize(FileDims(bt.files[bt.idx]),
                                     [scale |-> defaultScale])
              IN IF bt.mReady
                 THEN /\ batches' = [batches EXCEPT ![b].bpc = "detect",
                                                    ![b].cur = dims]
                      /\ UNCHANGED <<processing, enhanced>>
                 ELSE PushResult(b, dims, <<>>)
    /\ UNCHANGED <<brandName, vibe, loadVars>>
    /\ UNCHANGED <<videoVars, enhVars, wrapVars>>

\* await detectClothing(...) settles: it rejects when image.decode() or a
\* model call rejects, else resolves with Array.from(detected)
DetectSettled(b) ==
    /\ batches[b].bpc = "detect"
    /\ \E ok \in BOOLEAN, cp \in CocoPredictions, kw \in KeywordHits :
         IF ~ok THEN BatchCatch(b, "detect")
         ELSE PushResult(b, batches[b].cur,
                         detectClothing(cocoModelRef, mobilenetRef, cp, kw))
    /\ UNCHANGED <<brandName, vibe, loadVars>>
    /\ UNCHANGED <<videoVars, enhVars, wrapVars>>

----------------------------------------------------------------------------
(* Video job: onGenerateVideo, createVideoFromImage, animate,              *)
(* transcodeToMp4                                                          *)

\* const duration = 12_000; const fps = 30
duration == 12000
fps == 30
\* const totalFrames = Math.floor((duration / 1000) * fps)
totalFrames == (duration * fps) \div 1000

\* wrapText(script, 28, 680)
captionFontSize == 28
captionMaxWidth == 680

\* Captions and brands handed to the job: an empty one, a short one and one
\* long enough to wrap; no brand and a brand with a space in it.
LongScript == [i \in 1..50 |-> IF i % 6 = 0 THEN " " ELSE "a"]
JobScripts == { <<>>, <<"a", "a", " ", "a">>, LongScript }
JobBrands == { <<>>, <<"A", " ", "b">> }

\* brand.replace(/\s+/g, "")
RECURSIVE StripSpaces(_)
StripSpaces(str) ==
    IF str = <<>> THEN <<>>
    ELSE IF Head(str) = " " THEN StripSpaces(Tail(str))
    ELSE <<Head(str)>> \o StripSpaces(Tail(str))

\* const brandingText = brand ? `#${brand.replace(/\s+/g, "")}` : ""
BrandingText(brand) ==
    IF brand # <<>> THEN <<"#">> \o StripSpaces(brand) ELSE <<>>

VideoInit ==
    /\ videoBusy = FALSE /\ vpc = "idle"
    /\ jobScript = <<>> /\ jobBrand = <<>>
    /\ jobLines = <<>> /\ brandingText = <<>>
    /\ frame = 0 /\ drawCount = 0 /\ lastProgress = <<0, 1>>
    /\ loop = "none" /\ recorderState = "none"
    /\ stopIssued = FALSE /\ flushed = FALSE /\ onstopFired = FALSE
    /\ chunks = 0 /\ streamLive = FALSE
    /\ tstep = "none" /\ ffmpegFS = {}
    /\ videoResult = "none" /\ itemHasVideo = FALSE

\* onGenerateVideo(item): setVideoBusy(true), then createVideoFromImage runs
\* to its first await (loadImage); a null 2d context rejects it at once.
GenerateVideo ==
    /\ vpc = "idle" /\ ~videoBusy
    /\ videoBusy' = TRUE
    /\ \E script \in JobScripts, brand \in JobBrands, ctxOk \in BOOLEAN :
         /\ jobScript' = script
         /\ jobBrand' = brand
         /\ vpc' = IF ctxOk THEN "loadImage" ELSE "Failed"
    /\ UNCHANGED <<jobLines, brandingText, frame, drawCount, lastProgress,
                   loop, recorderState, stopIssued, flushed, onstopFired,
                   chunks, streamLive, tstep, ffmpegFS, videoResult,
                   itemHasVideo>>
    /\ UNCHANGED <<enhVars, wrapVars, batchVars>>

\* if (frame <= totalFrames) requestAnimationFrame(animate) else stop
LoopContinues(f) == f <= totalFrames

\* Variant of AnimateBody: the frame index advances by two per call.
AnimateBodySkip(rec) ==
    /\ lastProgress' = <<frame, totalFrames>>
    /\ drawCount' = drawCount + 1
    /\ frame' = frame + 2
    /\ IF frame' <= totalFrames
       THEN /\ loop' = "scheduled"
            /\ recorderState' = rec
            /\ UNCHANGED stopIssued
       ELSE /\ loop' = "finished"
            /\ stopIssued' = TRUE
            /\ recorderState' = "inactive"

\* One call of animate whose drawVideoFrame returns: draw with progress
\* frame / totalFrames, frame += 1, then reschedule or stop the recorder.
\* rec is the recorder's state when animate is entered.
AnimateBody(rec) ==
    /\ lastProgress' = <<frame, totalFrames>>
    /\ drawCount' = drawCount + 1
    /\ frame' = frame + 1
    /\ IF LoopContinues(frame')
       THEN /\ loop' = "scheduled"
            /\ recorderState' = rec
            /\ UNCHANGED stopIssued
       ELSE /\ loop' = "finished"
            /\ stopIssued' = TRUE
            /\ recorderState' = "inactive"

\* await loadImage(item.enhancedUrl) settles. On success the job runs the
\* synchronous block up to `await recording`: capture stream, recorder,
\* branding text, wrapped lines, recorder.start() and the first animate().
\* The MediaRecorder constructor may throw (unsupported mime type), and so
\* may drawVideoFrame in this first, synchronous call of animate.
ImageLoaded ==
    /\ vpc = "loadImage"
    /\ \E outcome \in {"imageError", "recorderError", "drawError", "ok"} :
         CASE outcome = "imageError" ->
                /\ vpc' = "Failed"
                /\ UNCHANGED <<jobLines, brandingText, frame, drawCount,
                               lastProgress, loop, recorderState, stopIssued,
                               streamLive>>
           [] outcome = "recorderError" ->
                /\ vpc' = "Failed"
                /\ streamLive' = TRUE
                /\ UNCHANGED <<jobLines, brandingText, frame, drawCount,
                               lastProgress, loop, recorderState, stopIssued>>
           [] outcome = "drawError" ->
                /\ vpc' = "Failed"
                /\ streamLive' = TRUE
                /\ brandingText' = BrandingText(jobBrand)
                /\ jobLines' = wrapText(jobScript, captionFontSize,
                                        captionMaxWidth)
                /\ recorderState' = "recording"
                /\ drawCount' = drawCount + 1
                /\ lastProgress' = <<frame, totalFrames>>
                /\ loop' = "crashed"
                /\ UNCHANGED <<frame, stopIssued>>
           [] outcome = "ok" ->
                /\ vpc' = "recording"
                /\ streamLive' = TRUE
                /\ brandingText' = BrandingText(jobBrand)
                /\ jobLines' = wrapText(jobScript, captionFontSize,
                                        captionMaxWidth)
                /\ AnimateBody("recording")
    /\ UNCHANGED <<videoBusy, jobScript, jobBrand, flushed, onstopFired,
                   chunks, tstep, ffmpegFS, videoResult, itemHasVideo>>
    /\ UNCHANGED <<enhVars, wrapVars, batchVars>>

\* requestAnimationFrame runs animate. A throw of drawVideoFrame inside the
\* callback is uncaught: frame is not advanced, nothing is rescheduled and
\* recorder.stop() is not called.
AnimateFrame ==
    /\ loop = "scheduled"
    /\ \E drawOk \in BOOLEAN :
         IF drawOk THEN AnimateBody(recorderState)
         ELSE /\ loop' = "crashed"
              /\ drawCount' = drawCount + 1
              /\ lastProgress' = <<frame, totalFrames>>
              /\ UNCHANGED <<frame, stopIssued, recorderState>>
    /\ UNCHANGED <<videoBusy, vpc, jobScript, jobBrand, jobLines,
                   brandingText, flushed, onstopFired, chunks, streamLive,
                   tstep, ffmpegFS, videoResult, itemHasVideo>>
    /\ UNCHANGED <<enhVars, wrapVars, batchVars>>

\* recorder.ondataavailable: the recorder was started without a timeslice, so
\* it delivers its data once, after stop(); empty data is not pushed.
RecorderDataAvailable ==
    /\ stopIssued /\ ~flushed
    /\ \E size \in {0, 1} :
         chunks' = IF size > 0 THEN chunks + 1 ELSE chunks
    /\ flushed' = TRUE
    /\ UNCHANGED <<videoBusy, vpc, jobScript, jobBrand, jobLines,
                   brandingText, frame, drawCount, lastProgress, loop,
                   recorderState, stopIssued, onstopFired, streamLive, tstep,
                   ffmpegFS, videoResult, itemHasVideo>>
    /\ UNCHANGED <<enhVars, wrapVars, batchVars>>

\* recorder.onstop: builds the webm blob from chunks and resolves `recording`
RecorderOnStop ==
    /\ stopIssued /\ flushed /\ ~onstopFired
    /\ onstopFired' = TRUE
    /\ UNCHANGED <<videoBusy, vpc, jobScript, jobBrand, jobLines,
                   brandingText, frame, drawCount, lastProgress, loop,
                   recorderState, stopIssued, flushed, chunks, streamLive,
                   tstep, ffmpegFS, videoResult, itemHasVideo>>
    /\ UNCHANGED <<enhVars, wrapVars, batchVars>>

\* Variant of RecordingSettled: the promise is taken as settled as soon as
\* the recorder has been started.
RecordingSettledEarly == recorderState # "none"

\* The `recording` promise is settled: only recorder.onstop resolves it, and
\* nothing rejects it.
RecordingSettled == onstopFired

\* const webmBlob = await recording; then transcodeToMp4(webmBlob) is called
\* and runs to its first await.
RecordingResolved ==
    /\ vpc = "recording"
    /\ RecordingSettled
    /\ vpc' = "transcoding"
    /\ tstep' = "load"
    /\ UNCHANGED <<videoBusy, jobScript, jobBrand, jobLines, brandingText,
                   frame, drawCount, lastProgress, loop, recorderState,
                   stopIssued, flushed, onstopFired, chunks, streamLive,
                   ffmpegFS, videoResult, itemHasVideo>>
    /\ UNCHANGED <<enhVars, wrapVars, batchVars>>

\* Order of the awaited steps of transcodeToMp4
NextTStep(t) ==
    CASE t = "load" -> "write"
      [] t = "write" -> "exec"
      [] t = "exec" -> "read"
      [] t = "read" -> "deleteInput"
      [] t = "deleteInput" -> "deleteOutput"
      [] t = "deleteOutput" -> "returned"

\* Files in the ffmpeg file system after step t succeeded
FSAfter(t, fs) ==
    CASE t = "write" -> fs \cup {"input.webm"}
      [] t = "exec" -> fs \cup {"output.mp4"}
      [] t = "deleteInput" -> fs \ {"input.webm"}
      [] t = "deleteOutput" -> fs \ {"output.mp4"}
      [] OTHER -> fs

\* One awaited step of transcodeToMp4 settles: the imports and ffmpeg.load,
\* fetchFile and writeFile, exec, readFile, the two deleteFile calls. A
\* rejection leaves the function at once; after the last step the blob is
\* returned and createVideoFromImage resolves.
TranscodeStep ==
    /\ vpc = "transcoding"
    /\ \E ok \in BOOLEAN :
         IF ok
         THEN /\ tstep' = NextTStep(tstep)
              /\ ffmpegFS' = FSAfter(tstep, ffmpegFS)
              /\ IF tstep' = "returned"
                 THEN vpc' = "Done" /\ videoResult' = "mp4"
                 ELSE UNCHANGED <<vpc, videoResult>>
         ELSE /\ vpc' = "Failed"
              /\ UNCHANGED <<tstep, ffmpegFS, videoResult>>
    /\ UNCHANGED <<videoBusy, jobScript, jobBrand, jobLines, brandingText,
                   frame, drawCount, lastProgress, loop, recorderState,
                   stopIssued, flushed, onstopFired, chunks, streamLive,
                   itemHasVideo>>
    /\ UNCHANGED <<enhVars, wrapVars, batchVars>>

\* onGenerateVideo after its await: setEnhanced attaches the video on
\* success, the error is logged on failure, finally setVideoBusy(false).
GenerateVideoSettled ==
    /\ videoBusy
    /\ vpc \in {"Done", "Failed"}
    /\ videoBusy' = FALSE
    /\ itemHasVideo' = (vpc = "Done")
    /\ UNCHANGED <<vpc, jobScript, jobBrand, jobLines, brandingText, frame,
                   drawCount, lastProgress, loop, recorderState, stopIssued,
                   flushed, onstopFired, chunks, streamLive, tstep, ffmpegFS,
                   videoResult>>
    /\ UNCHANGED <<enhVars, wrapVars, batchVars>>

----------------------------------------------------------------------------
(* Specifications *)

VideoIdle ==
    /\ videoBusy = FALSE /\ vpc = "off"
    /\ jobScript = <<>> /\ jobBrand = <<>>
    /\ jobLines = <<>> /\ brandingText = <<>>
    /\ frame = 0 /\ drawCount = 0 /\ lastProgress = <<0, 1>>
    /\ loop = "none" /\ recorderState = "none"
    /\ stopIssued = FALSE /\ flushed = FALSE /\ onstopFired = FALSE
    /\ chunks = 0 /\ streamLive = FALSE
    /\ tstep = "none" /\ ffmpegFS = {}
    /\ videoResult = "none" /\ itemHasVideo = FALSE

\* The video job
Init == VideoInit /\ EnhIdle /\ WrapIdle /\ BatchIdle
Next ==
    \/ GenerateVideo
    \/ ImageLoaded
    \/ AnimateFrame
    \/ RecorderDataAvailable
    \/ RecorderOnStop
    \/ RecordingResolved
    \/ TranscodeStep
    \/ GenerateVideoSettled
Spec == Init /\ [][Next]_vars

\* The video job under the scheduling the platform gives: a requested
\* animation frame is eventually delivered, recorder events are eventually
\* dispatched and every awaited promise that settles is eventually resumed.
FairSpec ==
    /\ Spec
    /\ WF_vars(ImageLoaded)
    /\ WF_vars(AnimateFrame)
    /\ WF_vars(RecorderDataAvailable)
    /\ WF_vars(RecorderOnStop)
    /\ WF_vars(RecordingResolved)
    /\ WF_vars(TranscodeStep)
    /\ WF_vars(GenerateVideoSettled)

\* enhanceOne on one file
EnhanceInit == EnhInit /\ VideoIdle /\ WrapIdle /\ BatchIdle
EnhanceNext == EnhanceDecode \/ EnhanceRender \/ EnhanceEncode
SpecEnhance == EnhanceInit /\ [][EnhanceNext]_vars

\* applySharpen on every small image
SharpenSpecInit == SharpenInit /\ VideoIdle /\ WrapIdle /\ BatchIdle
SharpenNext == SharpenCall
SpecSharpen == SharpenSpecInit /\ [][SharpenNext]_vars

\* wrapText on every short text
WrapSpecInit == WrapInit /\ VideoIdle /\ EnhIdle /\ BatchIdle
WrapNext == WrapCall
SpecWrap == WrapSpecInit /\ [][WrapNext]_vars

\* processFiles batches and model loading
BatchSpecInit == BatchInit /\ VideoIdle /\ EnhIdle /\ WrapIdle
BatchNext ==
    \/ \E b \in 1..MaxBatches : StartBatch(b)
    \/ \E b \in 1..MaxBatches : EnhanceSettled(b)
    \/ \E b \in 1..MaxBatches : DetectSettled(b)
    \/ LoadStep
    \/ Unmount
SpecBatch == BatchSpecInit /\ [][BatchNext]_vars

----------------------------------------------------------------------------
(* Properties *)

InSeq(x, sq) == \E j \in 1..Len(sq) : sq[j] = x

\* C1: when recorder.stop() has been issued, drawVideoFrame has been called
\* exactly totalFrames (360) times.
C1_ExactlyTotalFramesDrawn == stopIssued => drawCount = totalFrames

C3_FailedTranscodeReleasesAll ==
    (vpc = "Failed" /\ tstep # "none") =>
        /\ ffmpegFS = {}
        /\ ~streamLive
        /\ recorderState # "recording"

\* C4: when a processFiles batch has ended, every file of the batch was
\* attempted and every result computed for it is in the enhanced list, also
\* when one file failed.
C4_BatchFailureIsolated ==
    \A b \in 1..MaxBatches :
        batches[b].bpc = "done" =>
            /\ batches[b].idx = Len(batches[b].files)
            /\ \A i \in 1..Len(batches[b].results) :
                   InSeq(batches[b].results[i], enhanced)

\* C5: every started video job eventually reaches Done or Failed.
C5_JobTerminates == (vpc # "idle") ~> (vpc \in {"Done", "Failed"})

\* C6: a rejection of detectClothing is absorbed: the file it happened on
\* still gives a result with no labels and the script of the empty label
\* set, and the batch goes on to its last file; a batch started without the
\* models gives results with no labels.
C6_DetectionFailureAbsorbed ==
    \A b \in 1..MaxBatches :
        LET bt == batches[b] IN
        bt.bpc = "done" =>
            /\ bt.caught = "detect" =>
                 /\ bt.idx = Len(bt.files)
                 /\ \E j \in 1..Len(enhanced) :
                      /\ enhanced[j].name = bt.files[bt.idx]
                      /\ enhanced[j].clothing = <<>>
                      /\ enhanced[j].script = buildScript(<<>>, bt.brand, bt.vibe)
            /\ (~bt.mReady /\ bt.caught = "none") =>
                 \A i \in 1..Len(bt.results) :
                      /\ bt.results[i].clothing = <<>>
                      /\ bt.results[i].script = buildScript(<<>>, bt.brand, bt.vibe)

\* Coordinates of an image, its border and its interior
Coords(img) == (0..(img.width - 1)) \X (0..(img.height - 1))
OnBorder(img, xy) ==
    \/ xy[1] = 0 \/ xy[1] = img.width - 1
    \/ xy[2] = 0 \/ xy[2] = img.height - 1
Sample(img, xy, ch) == img.data[getIndex(xy[1], xy[2], img.width) + ch]
PixelAt(img, xy) == [ch \in 0..3 |-> Sample(img, xy, ch)]
Orthogonal(xy) == { <<xy[1] - 1, xy[2]>>, <<xy[1] + 1, xy[2]>>,
                    <<xy[1], xy[2] - 1>>, <<xy[1], xy[2] + 1>> }
NeighbourSum(img, xy, ch) ==
    Sample(img, <<xy[1] - 1, xy[2]>>, ch) + Sample(img, <<xy[1] + 1, xy[2]>>, ch)
    + Sample(img, <<xy[1], xy[2] - 1>>, ch) + Sample(img, <<xy[1], xy[2] + 1>>, ch)

BorderUnchanged(before, after) ==
    /\ after.width = before.width /\ after.height = before.height
    /\ \A xy \in Coords(before) :
         OnBorder(before, xy) => PixelAt(after, xy) = PixelAt(before, xy)

\* A channel value strictly between 0 and 255 that is not below the average
\* of its four orthogonal neighbours
PeakChannel(img, xy, ch) ==
    /\ Sample(img, xy, ch) > 0
    /\ Sample(img, xy, ch) < 255
    /\ 4 * Sample(img, xy, ch) >= NeighbourSum(img, xy, ch)

\* C7 (as stated): applySharpen with intensity > 0 leaves the border pixels
\* unchanged and changes every interior pixel that differs from at least
\* one of its four orthogonal neighbours.
C7_BorderKeptContrastChanged ==
    epc = "sharpened" =>
        /\ BorderUnchanged(imageData, written)
        /\ \A xy \in Coords(imageData) :
             (/\ ~OnBorder(imageData, xy)
              /\ \E n \in Orthogonal(xy) :
                    PixelAt(imageData, n) # PixelAt(imageData, xy))
             => PixelAt(written, xy) # PixelAt(imageData, xy)

\* C7 (amended): applySharpen with intensity > 0 leaves the border pixels
\* unchanged and changes every R, G or B value of an interior pixel that is
\* strictly between 0 and 255 and not below the average of its four
\* orthogonal neighbours.
C7_BorderKeptPeakChanged ==
    epc = "sharpened" =>
        /\ BorderUnchanged(imageData, written)
        /\ \A xy \in Coords(imageData) : \A ch \in 0..2 :
             (~OnBorder(imageData, xy) /\ PeakChannel(imageData, xy, ch))
             => Sample(written, xy, ch) # Sample(imageData, xy, ch)

C7_Witness ==
    /\ epc = "sharpened"
    /\ imageData.width = 3 /\ imageData.height = 3
    /\ PeakChannel(imageData, <<1, 1>>, 0)
    /\ \E n \in Orthogonal(<<1, 1>>) :
          PixelAt(imageData, n) # PixelAt(imageData, <<1, 1>>)
    /\ Sample(written, <<1, 1>>, 0) > Sample(imageData, <<1, 1>>, 0)
    /\ Sample(written, <<0, 1>>, 0) = Sample(imageData, <<0, 1>>, 0)

\* C8: with sharpen = 0 the buffer enhanceOne writes back is the buffer it
\* read after resampling, and applySharpen is not run.
C8_ZeroSharpenIsIdentity ==
    (epc \in {"encode", "done"} /\ opts.sharpen = 0) =>
        /\ written = imageData
        /\ kernelUsed = -1

C8_Witness ==
    /\ epc = "encode" /\ opts.sharpen = 0
    /\ canvas[1] >= 3 /\ canvas[2] >= 3
    /\ imageData.width = canvas[1] /\ imageData.height = canvas[2]
    /\ written = imageData

\* Words of a text that are not empty
NonEmpty(w) == w # <<>>
Words(text) == SelectSeq(split(text), NonEmpty)
HasSpace(line) == \E i \in 1..Len(line) : line[i] = " "

\* C9: every line wrapText returns has estimated width
\* length * fontSize * 0.55 at most maxWidth, or is one single word; and the
\* words of the lines are, in order, the words of the text (none is split).
C9_WrapWithinWidth ==
    wpc = "returned" =>
        /\ \A i \in 1..Len(wLines) :
             \/ Len(wLines[i]) * wFontSize * 55 <= wMaxWidth * Den
             \/ (~HasSpace(wLines[i]) /\ InSeq(wLines[i], split(wText)))
        /\ Flatten([i \in 1..Len(wLines) |-> Words(wLines[i])]) = Words(wText)

C9_Witness ==
    /\ wpc = "returned"
    /\ \E i \in 1..Len(wLines) :
          /\ Len(wLines[i]) * wFontSize * 55 > wMaxWidth * Den
          /\ ~HasSpace(wLines[i])
    /\ \E j \in 1..Len(wLines) :
          /\ HasSpace(wLines[j])
          /\ Len(Words(wLines[j])) >= 2

\* C10: once enhanceOne has rendered, the canvas size, the colour filter and
\* the sharpen kernel it used come from parameters clamped into range: scale
\* at least 1, brightness and saturation within 0.5..2.0, sharpen at most 1.
C10_ParamsClamped ==
    epc \in {"encode", "done"} =>
        /\ canvas[1] >= bitmap[1] /\ canvas[2] >= bitmap[2]
        /\ ctxFilter[1] \in 50..200 /\ ctxFilter[2] \in 50..200
        /\ kernelUsed <= Den

\* C11: every call of drawVideoFrame made by animate has a progress
\* frame / totalFrames with 0 <= progress < 1.
C11_ProgressBelowOne ==
    drawCount > 0 =>
        /\ lastProgress[1] >= 0
        /\ lastProgress[1] < lastProgress[2]

\* C12: within a job each step renders at most one frame; the k-th call of
\* drawVideoFrame is made with frame index k - 1 (indices 0, 1, 2, ... in
\* increasing order, each once); a render that returns is followed by a
\* requestAnimationFrame yield or by recorder.stop(); and no frame is
\* rendered once recorder.stop() has been called.
C12_FramesInOrderOncePerTick ==
    [][ /\ drawCount' \in {drawCount, drawCount + 1}
        /\ drawCount' = drawCount + 1 =>
             /\ lastProgress'[1] = drawCount
             /\ ~stopIssued
             /\ frame' = frame + 1 => (loop' = "scheduled" \/ stopIssued')
             /\ frame' = frame => loop' = "crashed"
        /\ stopIssued => (drawCount' = drawCount /\ frame' = frame) ]_vars

C12_Witness ==
    /\ stopIssued /\ loop = "finished" /\ onstopFired
    /\ drawCount > 2
    /\ lastProgress[1] = drawCount - 1
    /\ frame = drawCount

\* original + sum of weight_i * neighbour_i over Den, from the values of img:
\* weight 1 + 4 * intensity for the centre, -intensity for the four
\* orthogonal neighbours, 0 for the diagonals
SharpenedValue(img, xy, ch, intensity) ==
    Sample(img, xy, ch) * Den
    + (Den + 4 * intensity) * Sample(img, xy, ch)
    - intensity * NeighbourSum(img, xy, ch)

\* C13: for every interior pixel and each of R, G, B, applySharpen writes
\* clamp(original + sum of weight_i * neighbour_i, 0, 255), stored as an
\* 8-bit sample, where original and all neighbour values are those of the
\* buffer before the pass; alpha is left as it was.
C13_InteriorIsClampedDelta ==
    (epc \in {"sharpened", "encode", "done"} /\ kernelUsed > 0) =>
        \A xy \in Coords(imageData) :
            ~OnBorder(imageData, xy) =>
                /\ \A ch \in 0..2 :
                     Sample(written, xy, ch) =
                        ToUint8Clamp(SharpenedValue(imageData, xy, ch, kernelUsed))
                /\ Sample(written, xy, 3) = Sample(imageData, xy, 3)

C13_Witness ==
    /\ epc = "encode" /\ kernelUsed > 0
    /\ imageData.width >= 4 /\ imageData.height >= 3
    /\ Sample(written, <<1, 1>>, 0) # Sample(imageData, <<1, 1>>, 0)
    /\ Sample(written, <<2, 1>>, 0) # Sample(imageData, <<2, 1>>, 0)
    /\ Sample(imageData, <<1, 1>>, 0) # Sample(imageData, <<2, 1>>, 0)

\* C14: the processing flag is true whenever at least one processFiles
\* batch is still running.
C14_ProcessingWhileBatchRuns ==
    (\E b \in 1..MaxBatches : batches[b].bpc \in {"enhance", "detect"})
        => processing

\* C15: once the effect has been cleaned up (cancelled is true), loadModels
\* writes neither model ref and calls neither setModelReady nor
\* setModelError.
C15_NoWriteAfterCancel ==
    [][ cancelled =>
          /\ cocoModelRef' = cocoModelRef
          /\ mobilenetRef' = mobilenetRef
          /\ modelReady' = modelReady
          /\ modelError' = modelError ]_vars

====
